---- MODULE Spec2Model ----
(***************************************************************************)
(* Model of the swftp FTP front end (swftp/ftp/server.py): the Shell       *)
(* Adapter SwiftFTPShell, the attribute formatter stat_format, the upload  *)
(* handle SwiftWriteFile and the download handle SwiftReadFile; and of the *)
(* service start (swftp/ftp/service.py).  Deferreds are modelled by their  *)
(* outcome: a callback chain is applied to the outcome the filesystem      *)
(* delivers, in the order the code adds the callbacks.                     *)
(***************************************************************************)
EXTENDS Integers, Sequences, FiniteSets, TLC

VARIABLES
    shell,      \* last Shell Adapter call: operation, arguments, backend outcome, result
    wf,         \* SwiftWriteFile: .finished
    uploads,    \* backend PUTs started by startFileUpload, with their deferreds
    closeRet,   \* value returned by the last SwiftWriteFile.close()
    closeAt,    \* number of receive() calls made when close() was last called
    rf,         \* SwiftReadFile: .finished and .consumer
    sendD,      \* the deferred send() returned
    startD,     \* the deferred startFileDownload returned
    backend,    \* the backend GET of the download
    delivered,  \* chunks the backend has delivered to dataReceived so far
    consumer,   \* the consumer: chunks written, stopProducing calls
    lostReason, \* reason of the delivered connectionLost, "none" before it
    cancelled,  \* where the send() deferred stood when the engine cancelled it
    fmt,        \* one application of stat_format: field names, attributes, result
    svc         \* one start of the FTP service: configuration, port override, bound port

vars == <<shell, wf, uploads, closeRet, closeAt, rf, sendD, startD, backend,
          delivered, consumer, lostReason, cancelled, fmt, svc>>

shellVars == <<shell>>
writeVars == <<wf, uploads, closeRet, closeAt>>
readVars  == <<rf, sendD, startD, backend, delivered, consumer, lostReason, cancelled>>
pureVars  == <<fmt, svc>>

----------------------------------------------------------------------------
(* Bounds *)

MaxChunks == 3
MaxReceives == 3
MaxKeys == 3

----------------------------------------------------------------------------
(* Outcomes of deferreds and the failure classes that travel in them *)

Ok(v) == [kind |-> "ok", val |-> v, err |-> "none"]
Fail(e) == [kind |-> "fail", val |-> "none", err |-> e]

\* swftp.swift raises these two; the shell imports them by name
BackendErrors == {"NotFound", "Conflict"}

\* the twisted.protocols.ftp errors the shell imports
ProtocolErrors == {"FileNotFoundError", "CmdNotImplementedForArgError",
                   "IsNotADirectoryError", "IsADirectoryError"}

\* failure.trap(classes): the failure goes on unchanged unless it is of one
\* of the classes; then the errback's own return value decides
Trap(failure, classes, handled) ==
    IF failure.kind = "fail" /\ failure.err \in classes THEN handled ELSE failure

----------------------------------------------------------------------------
(* Paths *)

Paths == {<<>>, <<"c">>, <<"c", "o">>, <<"c", "d", "o">>}

RECURSIVE _fullpath(_)
_fullpath(path_parts) ==
    IF path_parts = <<>> THEN ""
    ELSE IF Len(path_parts) = 1 THEN path_parts[1]
    ELSE path_parts[1] \o "/" \o _fullpath(Tail(path_parts))

----------------------------------------------------------------------------
(* Attribute Translator *)

S_IFDIR == 16384
S_IFREG == 32768

\* field names are character sequences: stat_format tests two of them with
\* Python's substring operator `in`
K_size == <<"s","i","z","e">>
K_directory == <<"d","i","r","e","c","t","o","r","y">>
K_permissions == <<"p","e","r","m","i","s","s","i","o","n","s">>
K_hardlinks == <<"h","a","r","d","l","i","n","k","s">>
K_modified == <<"m","o","d","i","f","i","e","d">>
K_owner == <<"o","w","n","e","r">>
K_group == <<"g","r","o","u","p">>

\* Python's `a in b` on two strings
InStr(a, b) ==
    /\ Len(a) <= Len(b)
    /\ \E i \in 0..(Len(b) - Len(a)) : SubSeq(b, i + 1, i + Len(a)) = a

\* attribute dictionaries the filesystem hands out; mtime10 is the modify
\* time in tenths of a second
DirProps == [content_type |-> "application/directory", size |-> 0, mtime10 |-> 0]
FileProps == [content_type |-> "text/plain", size |-> 42, mtime10 |-> 17009]
PropsSet == {DirProps, FileProps}

swift_stat(props) ==
    [st_size |-> props.size,
     st_mode |-> IF props.content_type = "application/directory"
                 THEN S_IFDIR + 448 ELSE S_IFREG + 384,
     st_mtime10 |-> props.mtime10]

\* stat_format that rounds the modify time to the nearest second
stat_value_rounded(key, st) ==
    IF key = K_size THEN st.st_size
    ELSE IF key = K_directory THEN (st.st_mode \div S_IFDIR) % 2 = 1
    ELSE IF key = K_permissions THEN st.st_mode
    ELSE IF key = K_hardlinks THEN 0
    ELSE IF key = K_modified THEN (st.st_mtime10 + 5) \div 10
    ELSE IF InStr(key, K_owner) THEN "nobody"
    ELSE IF InStr(key, K_group) THEN "nobody"
    ELSE ""

stat_value(key, st) ==
    IF key = K_size THEN st.st_size
    ELSE IF key = K_directory THEN (st.st_mode \div S_IFDIR) % 2 = 1
    ELSE IF key = K_permissions THEN st.st_mode
    ELSE IF key = K_hardlinks THEN 0
    ELSE IF key = K_modified THEN st.st_mtime10 \div 10
    ELSE IF InStr(key, K_owner) THEN "nobody"
    ELSE IF InStr(key, K_group) THEN "nobody"
    ELSE ""

stat_format(keys, props) ==
    [i \in 1..Len(keys) |-> stat_value(keys[i], swift_stat(props))]

KnownNames == {K_size, K_directory, K_permissions, K_hardlinks, K_modified, K_owner, K_group}

\* names no field has: the empty string, own, r, gro, x, sizes
OtherNames == {<<>>, <<"o","w","n">>, <<"r">>, <<"g","r","o">>, <<"x">>,
               <<"s","i","z","e","s">>}

FieldNames == KnownNames \cup OtherNames

\* every sequence of at most MaxKeys field names, repetitions included
KeySeqs == UNION {[1..n -> FieldNames] : n \in 0..MaxKeys}

FormatInit ==
    fmt \in [keys : KeySeqs, props : PropsSet, out : {<<>>}, done : {FALSE}]

Format ==
    /\ ~fmt.done
    /\ fmt' = [fmt EXCEPT !.out = stat_format(fmt.keys, fmt.props), !.done = TRUE]
    /\ UNCHANGED <<shellVars, writeVars, readVars, svc>>

KeyLists == {<<>>, <<K_size>>, <<K_size, K_directory, K_modified>>, <<K_owner, K_permissions>>}

----------------------------------------------------------------------------
(* Outcomes of the Virtual Filesystem calls the shell makes.  An outcome is *)
(* the result of the deferred the call returns, or an exception the call    *)
(* raises before it returns one (kind "raise").                             *)

Raise(e) == [kind |-> "raise", val |-> "none", err |-> e]

\* what lies below a listed directory: objects and directory markers by the
\* segments of their key relative to that directory
Trees == {[k \in {<<"o">>} |-> FileProps],
          [k \in {<<"o">>, <<"d">>} |-> IF k = <<"d">> THEN DirProps ELSE FileProps],
          [k \in {<<"o">>, <<"d", "o">>} |-> FileProps]}

\* the "full listing": every descendant, keyed by its full relative path
get_full_listing(tree) ==
    [n \in {_fullpath(k) : k \in DOMAIN tree} |->
        tree[CHOOSE k \in DOMAIN tree : _fullpath(k) = n]]

Listings == {get_full_listing(t) : t \in Trees}

\* the direct children of the listed directory and the attributes of each: its
\* own when it is stored, those of a directory when it is only a key prefix
Children(tree) == {k[1] : k \in DOMAIN tree}
ChildProps(tree, name) == IF <<name>> \in DOMAIN tree THEN tree[<<name>>] ELSE DirProps

fs_makeDirectory == {Ok("none"), Fail("Conflict"), Fail("BackendError")}
fs_removeDirectory == {Ok("none"), Fail("NotFound"), Fail("Conflict"), Fail("BackendError")}
fs_removeFile == {Ok("none"), Fail("NotFound"), Fail("BackendError")}
fs_renameFile == {Ok("none"), Fail("NotFound"), Fail("Conflict"),
                  Fail("NotImplementedError"), Fail("BackendError")}
fs_getAttrs == {Ok(p) : p \in PropsSet} \cup {Fail("NotFound"), Fail("BackendError")}
fs_get_full_listing(tree) ==
    {Ok(get_full_listing(tree)), Fail("NotFound"), Fail("BackendError")}
fs_checkFileExistance == {Ok("none"), Fail("NotFound"), Fail("BackendError"),
                          Raise("NotImplementedError"), Fail("NotImplementedError")}

----------------------------------------------------------------------------
(* Shell Adapter: each method as a function of the filesystem's outcome *)

makeDirectory(out) == out

\* removeDirectory whose errback also swallows the backend's rejection
removeDirectory_lenient(out) == Trap(out, {"NotFound", "Conflict"}, Ok("none"))

removeDirectory(out) == Trap(out, {"NotFound"}, Ok("none"))

removeFile(out) == Trap(out, {"NotFound"}, Ok("none"))

rename(out) ==
    Trap(out, {"NotFound", "Conflict", "NotImplementedError"},
         IF out.err = "NotFound" THEN Fail("FileNotFoundError")
         ELSE Fail("CmdNotImplementedForArgError"))

access_cb(out) ==
    IF out.kind # "ok" THEN out
    ELSE IF out.val.content_type = "application/directory" THEN Ok("grant")
    ELSE Fail("IsNotADirectoryError")

\* access whose errback swallows every failure, the callback's included
access_swallow(out) ==
    IF access_cb(out).kind = "fail" THEN Ok("grant") ELSE access_cb(out)

access(out) == Trap(access_cb(out), {"NotFound"}, Ok("grant"))

stat_cb(out, keys) ==
    IF out.kind # "ok" THEN out ELSE Ok(stat_format(keys, out.val))

stat(out, keys) == Trap(stat_cb(out, keys), {"NotFound"}, Fail("FileNotFoundError"))

\* the orders in which a dictionary with these keys may be iterated
Orders(S) == {o \in [1..Cardinality(S) -> S] : \A i, j \in DOMAIN o : i # j => o[i] # o[j]}

list_cb(results, keys, order) ==
    [i \in 1..Len(order) |-> <<order[i], stat_format(keys, results[order[i]])>>]

openForReading(out) ==
    IF out.kind = "raise"
    THEN IF out.err = "NotImplementedError" THEN Fail("IsADirectoryError") ELSE out
    ELSE IF out.kind = "ok" THEN Ok("SwiftReadFile") ELSE out

openForWriting == Ok("SwiftWriteFile")

NoTree == <<>>

ShellCallOn(tree, op, path, toPath, keys, out, result) ==
    /\ shell' = [op |-> op, path |-> path, fullpath |-> _fullpath(path),
                 toPath |-> toPath, keys |-> keys, tree |-> tree,
                 fs |-> out, result |-> result]
    /\ UNCHANGED <<writeVars, readVars, pureVars>>

ShellCall(op, path, toPath, keys, out, result) ==
    ShellCallOn(NoTree, op, path, toPath, keys, out, result)

MakeDirectory ==
    \E path \in Paths, out \in fs_makeDirectory :
        ShellCall("makeDirectory", path, <<>>, <<>>, out, makeDirectory(out))

RemoveDirectory ==
    \E path \in Paths, out \in fs_removeDirectory :
        ShellCall("removeDirectory", path, <<>>, <<>>, out, removeDirectory(out))

RemoveFile ==
    \E path \in Paths, out \in fs_removeFile :
        ShellCall("removeFile", path, <<>>, <<>>, out, removeFile(out))

Rename ==
    \E fromPath \in Paths, toPath \in Paths, out \in fs_renameFile :
        ShellCall("rename", fromPath, toPath, <<>>, out, rename(out))

Access ==
    \E path \in Paths, out \in fs_getAttrs :
        ShellCall("access", path, <<>>, <<>>, out, access(out))

Stat ==
    \E path \in Paths, keys \in KeyLists, out \in fs_getAttrs :
        ShellCall("stat", path, <<>>, keys, out, stat(out, keys))

List ==
    \E path \in Paths, keys \in KeyLists, tree \in Trees :
        \E out \in fs_get_full_listing(tree) :
            IF out.kind = "ok"
            THEN \E order \in Orders(DOMAIN out.val) :
                    ShellCallOn(tree, "list", path, <<>>, keys, out,
                                Ok(list_cb(out.val, keys, order)))
            ELSE ShellCallOn(tree, "list", path, <<>>, keys, out, out)

OpenForReading ==
    \E path \in Paths, out \in fs_checkFileExistance :
        ShellCall("openForReading", path, <<>>, <<>>, out, openForReading(out))

OpenForWriting ==
    \E path \in Paths :
        ShellCall("openForWriting", path, <<>>, <<>>, Ok("none"), openForWriting)

ShellInit ==
    shell = [op |-> "none", path |-> <<>>, fullpath |-> "", toPath |-> <<>>,
             keys |-> <<>>, tree |-> NoTree, fs |-> Ok("none"), result |-> Ok("none")]

----------------------------------------------------------------------------
(* SwiftWriteFile *)

None == 0
NotCalled == -1

\* startFileUpload: starts a backend PUT and returns its completion deferred
\* (the writer it also returns is the body sink, which holds no state here)
startFileUpload(ups) == Append(ups, [put |-> "pending", d |-> "pending"])

OpenWrite == wf = [finished |-> None]


\* receive() that keeps the deferred of the first upload
receive_finished_first(old, d) == IF old = None THEN d ELSE old

receive_finished(old, d) == d

Receive ==
    /\ Len(uploads) < MaxReceives
    /\ uploads' = startFileUpload(uploads)
    /\ wf' = [wf EXCEPT !.finished = receive_finished(wf.finished, Len(uploads'))]
    /\ UNCHANGED <<closeRet, closeAt, shellVars, readVars, pureVars>>

\* close() that hands out the signal of the upload before the last one
close_previous(handle) ==
    IF handle.finished > 1 THEN handle.finished - 1 ELSE handle.finished

close(handle) == handle.finished

Close ==
    /\ closeRet' = close(wf)
    /\ closeAt' = Len(uploads)
    /\ UNCHANGED <<wf, uploads, shellVars, readVars, pureVars>>

\* the backend settles a PUT: it acknowledges it, rejects the body, or the
\* connection drops; the completion deferred fires with that outcome
PutSettles(i, how) ==
    /\ uploads[i].put = "pending"
    /\ uploads' = [uploads EXCEPT ![i] = [put |-> how,
                       d |-> IF how = "acked" THEN "success" ELSE "failure"]]
    /\ UNCHANGED <<wf, closeRet, closeAt, shellVars, readVars, pureVars>>

PutAcked == \E i \in DOMAIN uploads : PutSettles(i, "acked")
PutRejected == \E i \in DOMAIN uploads : PutSettles(i, "rejected")
PutDropped == \E i \in DOMAIN uploads : PutSettles(i, "dropped")

WriteInit ==
    /\ OpenWrite
    /\ uploads = <<>>
    /\ closeRet = NotCalled
    /\ closeAt = 0

----------------------------------------------------------------------------
(* SwiftReadFile *)

Chunks == {<<1>>, <<2>>, <<1, 2>>}

CleanReasons == {"ResponseDone", "PotentialDataLoss"}
OtherReasons == {"ConnectionLost", "ResponseFailed"}
Reasons == CleanReasons \cup OtherReasons

\* defer.Deferred(): not yet called, no result
Deferred == [state |-> "pending", reason |-> "none", fires |-> 0, suppress |-> FALSE]

\* Deferred.callback / Deferred.errback: the first call settles the deferred;
\* a later one raises AlreadyCalledError, unless the deferred was cancelled,
\* in which case the first later call is swallowed
Resolve(d, kind, reason) ==
    IF d.state = "pending"
    THEN [d EXCEPT !.state = kind, !.reason = reason, !.fires = @ + 1]
    ELSE IF d.suppress THEN [d EXCEPT !.suppress = FALSE] ELSE d

AlreadyCalled(d) == d.state # "pending" /\ ~d.suppress

\* Deferred.cancel() on a deferred without a canceller
CancelDeferred(d) ==
    IF d.state = "pending"
    THEN [d EXCEPT !.state = "failure", !.reason = "CancelledError",
                   !.fires = @ + 1, !.suppress = TRUE]
    ELSE d

\* the outcome a deferred takes once the deferred its callback returned settles
Chained(d) ==
    IF d.state = "pending" THEN [state |-> "chained", reason |-> "none"]
    ELSE [state |-> d.state, reason |-> d.reason]

\* cb_send that returns nothing: send()'s deferred fires at once
cb_send_none(handle) == [state |-> "success", reason |-> "none"]

cb_send(handle) == Chained(handle.finished)

Send ==
    /\ sendD.state = "none"
    /\ rf' = [rf EXCEPT !.consumer = "set"]
    /\ startD' = "pending"
    /\ backend' = "open"
    /\ sendD' = [state |-> "waiting", reason |-> "none"]
    /\ UNCHANGED <<delivered, consumer, lostReason, cancelled, shellVars, writeVars, pureVars>>

\* startFileDownload's deferred fires with success: cb_send runs
StartOk ==
    /\ startD = "pending"
    /\ backend \in {"open", "closed"}
    /\ startD' = "ok"
    /\ sendD' = cb_send(rf)
    /\ UNCHANGED <<rf, backend, delivered, consumer, lostReason, cancelled,
                   shellVars, writeVars, pureVars>>

\* startFileDownload's deferred fails: no response body will come
StartFail ==
    \E e \in {"NotFound", "BackendError"} :
        /\ startD = "pending"
        /\ backend = "open"
        /\ delivered = <<>>
        /\ startD' = "failed"
        /\ backend' = "failed"
        /\ sendD' = [state |-> "failure", reason |-> e]
        /\ UNCHANGED <<rf, delivered, consumer, lostReason, cancelled,
                       shellVars, writeVars, pureVars>>


\* dataReceived that puts the chunk in front of what was written
dataReceived_reordered(cons, data) ==
    [cons EXCEPT !.written = <<data>> \o @,
                 !.late = IF cons.stopped > 0 THEN @ + 1 ELSE @]

\* consumer.write(data); the consumer counts the writes that reach it after
\* stopProducing
write(cons, data) ==
    [cons EXCEPT !.written = Append(@, data),
                 !.late = IF cons.stopped > 0 THEN @ + 1 ELSE @]

dataReceived(cons, data) == write(cons, data)

DataReceived ==
    \E data \in Chunks :
        /\ backend = "open"
        /\ rf.consumer = "set"
        /\ Len(delivered) < MaxChunks
        /\ delivered' = Append(delivered, data)
        /\ consumer' = dataReceived(consumer, data)
        /\ UNCHANGED <<rf, sendD, startD, backend, lostReason, cancelled,
                       shellVars, writeVars, pureVars>>


\* dataReceived called on the handle after connectionLost: nothing in the
\* handle refuses it
LateDataReceived ==
    \E data \in Chunks :
        /\ backend = "closed"
        /\ rf.consumer = "set"
        /\ Len(delivered) < MaxChunks
        /\ delivered' = Append(delivered, data)
        /\ consumer' = dataReceived(consumer, data)
        /\ UNCHANGED <<rf, sendD, startD, backend, lostReason, cancelled,
                       shellVars, writeVars, pureVars>>

\* connectionLost that forgets the errback
connectionLost_finished_noerrback(d, reason) ==
    IF reason \in CleanReasons THEN Resolve(d, "success", "none") ELSE d

\* connectionLost that takes PotentialDataLoss for a failure
connectionLost_finished_strict(d, reason) ==
    IF reason = "ResponseDone"
    THEN Resolve(d, "success", "none")
    ELSE Resolve(d, "failure", reason)

connectionLost_finished(d, reason) ==
    IF reason \in CleanReasons
    THEN Resolve(d, "success", "none")
    ELSE Resolve(d, "failure", reason)


\* connectionLost that writes a closing empty chunk before it stops the consumer
connectionLost_consumer_flush(cons, d, reason) ==
    IF AlreadyCalled(d) THEN cons
    ELSE [cons EXCEPT !.written = Append(@, <<>>), !.stopped = @ + 1]

\* connectionLost that stops the consumer in the success branch only
connectionLost_consumer_inbranch(cons, d, reason) ==
    IF AlreadyCalled(d) \/ reason \notin CleanReasons
    THEN cons ELSE [cons EXCEPT !.stopped = @ + 1]

\* stopProducing is the statement after the if: it runs unless callback or
\* errback raised
connectionLost_consumer(cons, d, reason) ==
    IF AlreadyCalled(d) THEN cons ELSE [cons EXCEPT !.stopped = @ + 1]

ConnectionLost ==
    \E reason \in Reasons :
        /\ backend = "open"
        /\ rf.consumer = "set"
        /\ backend' = "closed"
        /\ lostReason' = reason
        /\ rf' = [rf EXCEPT !.finished = connectionLost_finished(@, reason)]
        /\ consumer' = connectionLost_consumer(consumer, rf.finished, reason)
        /\ sendD' = IF sendD.state = "chained" THEN Chained(rf'.finished) ELSE sendD
        /\ UNCHANGED <<startD, delivered, cancelled, shellVars, writeVars, pureVars>>

\* the protocol engine cancels the deferred send() returned.  While that
\* deferred still waits for startFileDownload, the cancellation reaches the
\* filesystem's deferred, whose canceller gives up the request; once cb_send
\* has run, it reaches self.finished, which has no canceller
Cancel ==
    /\ sendD.state \in {"waiting", "chained"}
    /\ cancelled' = sendD.state
    /\ sendD' = [state |-> "failure", reason |-> "CancelledError"]
    /\ IF sendD.state = "waiting"
       THEN /\ startD' = "cancelled"
            /\ backend' = IF backend = "open" THEN "aborted" ELSE backend
            /\ rf' = rf
       ELSE /\ rf' = [rf EXCEPT !.finished = CancelDeferred(@)]
            /\ UNCHANGED <<startD, backend>>
    /\ UNCHANGED <<delivered, consumer, lostReason, shellVars, writeVars, pureVars>>

ReadInit ==
    /\ rf = [finished |-> Deferred, consumer |-> "unset"]
    /\ sendD = [state |-> "none", reason |-> "none"]
    /\ startD = "none"
    /\ backend = "none"
    /\ delivered = <<>>
    /\ consumer = [written |-> <<>>, stopped |-> 0, late |-> 0]
    /\ lostReason = "none"
    /\ cancelled = "none"

----------------------------------------------------------------------------
(* swftp/ftp/service.py: get_config and makeService *)

\* option values are strings of digits; <<>> is an option that is not given
NoPort == <<>>
PortStrings == {<<2, 1, 2, 1>>, <<8, 0, 2, 1>>}
DefaultPort == <<5, 0, 2, 1>>

NoSectionError == -1

\* int(value)
RECURSIVE ParseInt(_)
ParseInt(digits) ==
    IF digits = <<>> THEN 0
    ELSE ParseInt(SubSeq(digits, 1, Len(digits) - 1)) * 10 + digits[Len(digits)]

\* the configuration files read: the port options of [DEFAULT], [ftp] and
\* [sftp], and whether a section [sftp] is there at all
ConfigFiles ==
    {f \in [defPort : PortStrings \cup {NoPort}, ftpPort : PortStrings \cup {NoPort},
            hasSftp : BOOLEAN, sftpPort : PortStrings \cup {NoPort}] :
        ~f.hasSftp => f.sftpPort = NoPort}

\* the sections of the parser and the port option of each
SectionsOf(file, ftpPort) ==
    [sec \in (IF file.hasSftp THEN {"ftp", "sftp"} ELSE {"ftp"}) |->
        IF sec = "ftp" THEN ftpPort ELSE file.sftpPort]

get_config(file, override) ==
    [defaults |-> IF file.defPort # NoPort THEN file.defPort ELSE DefaultPort,
     sections |-> SectionsOf(file, IF override # NoPort THEN override ELSE file.ftpPort)]

\* ConfigParser.getint(section, 'port')
getint(c, section) ==
    IF section \notin DOMAIN c.sections THEN NoSectionError
    ELSE IF c.sections[section] # NoPort THEN ParseInt(c.sections[section])
    ELSE ParseInt(c.defaults)

makeService_port(c) == getint(c, "sftp")

MakeService ==
    \E file \in ConfigFiles, override \in PortStrings \cup {NoPort} :
        /\ ~svc.started
        /\ svc' = [started |-> TRUE, file |-> file, override |-> override,
                   bound |-> makeService_port(get_config(file, override))]
        /\ UNCHANGED <<shellVars, writeVars, readVars, fmt>>

----------------------------------------------------------------------------
(* Specifications *)

FormatIdle ==
    fmt = [keys |-> <<>>, props |-> DirProps, out |-> <<>>, done |-> FALSE]

ServiceIdle ==
    svc = [started |-> FALSE]

Init == ShellInit /\ WriteInit /\ ReadInit /\ FormatIdle /\ ServiceIdle

NextShell ==
    \/ MakeDirectory
    \/ RemoveDirectory
    \/ RemoveFile
    \/ Rename
    \/ Access
    \/ Stat
    \/ List
    \/ OpenForReading
    \/ OpenForWriting

NextWrite ==
    \/ Receive
    \/ Close
    \/ PutAcked
    \/ PutRejected
    \/ PutDropped

NextRead ==
    \/ Send
    \/ StartOk
    \/ StartFail
    \/ DataReceived
    \/ ConnectionLost
    \/ Cancel

InitFormat == ShellInit /\ WriteInit /\ ReadInit /\ FormatInit /\ ServiceIdle

NextFormat == Format

\* the handle driven by any sequence of events, dataReceived after
\* connectionLost included
NextReadAny ==
    \/ NextRead
    \/ LateDataReceived

NextService == MakeService

SpecShell == Init /\ [][NextShell]_vars
SpecWrite == Init /\ [][NextWrite]_vars
SpecRead == Init /\ [][NextRead]_vars
SpecReadAny == Init /\ [][NextReadAny]_vars
SpecService == Init /\ [][NextService]_vars
SpecFormat == InitFormat /\ [][NextFormat]_vars

----------------------------------------------------------------------------
(* Properties *)

RECURSIVE Flatten(_)
Flatten(chunks) == IF chunks = <<>> THEN <<>> ELSE Head(chunks) \o Flatten(Tail(chunks))

\* C1: whatever the operation and the backend outcome, the result the shell
\* hands to the protocol engine is never a raw backend NotFound or Conflict.
C1_NoRawBackendFailure == shell.result.err \notin BackendErrors

\* C2: when the backend reports that the file does not exist, removeFile
\* fails; it never reports success.
C2_RemoveFileNotFoundFails ==
    (shell.op = "removeFile" /\ shell.fs.err = "NotFound") => shell.result.kind = "fail"

\* C3: when the existence check signals the directory condition, raised or
\* through its failed deferred, openForReading fails with IsADirectoryError.
C3_OpenDirectoryIsADirectory ==
    (shell.op = "openForReading" /\ shell.fs.err = "NotImplementedError")
        => (shell.result.kind = "fail" /\ shell.result.err = "IsADirectoryError")

\* C4: the download's completion signal is resolved at most once, and exactly
\* once after connectionLost was delivered.
C4_FinishedExactlyOnce ==
    /\ rf.finished.fires <= 1
    /\ lostReason # "none" => (rf.finished.fires = 1 /\ rf.finished.state # "pending")

\* a cancelled download whose response then ended: two attempts to resolve
C4_Witness ==
    /\ lostReason # "none"
    /\ cancelled = "chained"
    /\ rf.finished.fires = 1

\* C5: a connectionLost with ResponseDone or PotentialDataLoss resolves a
\* pending completion signal with success, and never makes the signal a failure.
C5_CleanEndSucceeds ==
    [][(lostReason = "none" /\ lostReason' \in CleanReasons)
          => /\ rf.finished.state = "pending" => rf'.finished.state = "success"
             /\ rf'.finished.state = "failure" => rf.finished.state = "failure"]_vars

C5_Witness ==
    /\ lostReason = "PotentialDataLoss"
    /\ rf.finished.state = "success"
    /\ Len(delivered) > 0

\* C6: a connectionLost with any other reason leaves the completion signal
\* failed, with that reason if the signal was pending, and stopProducing is
\* called on the consumer.
C6_OtherEndFailsAndStops ==
    [][(lostReason = "none" /\ lostReason' \in OtherReasons)
          => /\ rf'.finished.state = "failure"
             /\ rf.finished.state = "pending" => rf'.finished.reason = lostReason'
             /\ consumer'.stopped = consumer.stopped + 1]_vars

C6_Witness ==
    /\ lostReason = "ResponseFailed"
    /\ rf.finished.state = "failure"
    /\ rf.finished.reason = "ResponseFailed"
    /\ consumer.stopped = 1

\* C7: close() called before any receive() returns a completion signal.
C7_CloseBeforeReceiveGivesSignal ==
    (closeRet # NotCalled /\ closeAt = 0) => closeRet # None

C9_CancelReleasesBackend == cancelled # "none" => backend # "open"

\* C10: the bytes written to the consumer are the bytes the backend has
\* delivered so far, in order.
C10_ForwardedVerbatim == Flatten(consumer.written) = Flatten(delivered)

C10_Witness ==
    /\ Len(delivered) >= 2
    /\ delivered[1] = <<1, 2>>
    /\ delivered[2] = <<2>>
    /\ consumer.written = delivered

\* C11: the deferred of send() is successful only after the response body has
\* ended with the completion signal successful; once the start of the download
\* has succeeded and nobody cancelled, it has the outcome of the completion
\* signal, pending included; it has failed when the start of the download failed.
C11_SendFollowsFinished ==
    /\ sendD.state = "success" => (lostReason # "none" /\ rf.finished.state = "success")
    /\ startD = "failed" => sendD.state = "failure"
    /\ (startD = "ok" /\ cancelled = "none")
           => /\ sendD.state = "chained" <=> rf.finished.state = "pending"
              /\ sendD.state = "success" <=> rf.finished.state = "success"
              /\ sendD.state = "failure"
                    <=> (rf.finished.state = "failure" /\ sendD.reason = rf.finished.reason)

\* the response ended before startFileDownload's deferred fired
C11_Witness ==
    /\ startD = "ok"
    /\ lostReason = "ResponseDone"
    /\ sendD.state = "success"
    /\ Len(delivered) > 0

\* C12: access succeeds exactly when the attributes show a directory or the
\* backend reports NotFound; a non-directory content type gives
\* IsNotADirectoryError and every other backend failure is a failure.
C12_AccessOnlyDirectories ==
    shell.op = "access"
        => /\ shell.result.kind = "ok"
                <=> \/ shell.fs.err = "NotFound"
                    \/ /\ shell.fs.kind = "ok"
                       /\ shell.fs.val.content_type = "application/directory"
           /\ (shell.fs.kind = "ok" /\ shell.fs.val.content_type # "application/directory")
                => (shell.result.kind = "fail" /\ shell.result.err = "IsNotADirectoryError")
           /\ (shell.fs.kind = "fail" /\ shell.fs.err # "NotFound")
                => (shell.result.kind = "fail" /\ shell.result.err = shell.fs.err)

C12_Witness ==
    /\ shell.op = "access"
    /\ shell.fs.kind = "ok"
    /\ shell.fs.val.content_type = "text/plain"
    /\ shell.result.err = "IsNotADirectoryError"

\* C13: rename reports each backend failure cause as its own protocol error:
\* NotFound as FileNotFoundError, NotImplementedError as
\* CmdNotImplementedForArgError, Conflict as an error that is neither of these
\* two nor a raw backend failure; a successful backend rename is a success.
C13_RenameKeepsCausesApart ==
    shell.op = "rename"
        => /\ shell.fs.kind = "ok" => shell.result.kind = "ok"
           /\ shell.fs.err = "NotFound" => shell.result.err = "FileNotFoundError"
           /\ shell.fs.err = "NotImplementedError"
                => shell.result.err = "CmdNotImplementedForArgError"
           /\ shell.fs.err = "Conflict"
                => /\ shell.result.kind = "fail"
                   /\ shell.result.err \notin {"FileNotFoundError",
                                               "CmdNotImplementedForArgError"}

\* C14: removeDirectory reports success exactly when the backend removal
\* succeeded or the backend reported NotFound; a rejected removal of a
\* directory that still has children is a failure.
C14_RemoveDirectoryRejection ==
    shell.op = "removeDirectory"
        => /\ shell.result.kind = "ok"
                <=> (shell.fs.kind = "ok" \/ shell.fs.err = "NotFound")
           /\ shell.fs.err = "Conflict" => shell.result.kind = "fail"

C14_Witness ==
    /\ shell.op = "removeDirectory"
    /\ shell.fs.err = "Conflict"
    /\ shell.result.kind = "fail"

\* C15: for every requested field name that is not one of the seven known
\* names, stat_format emits the empty value ''.
C15_UnknownFieldsEmpty ==
    fmt.done
        => \A i \in 1..Len(fmt.keys) :
               fmt.keys[i] \notin KnownNames => fmt.out[i] = ""

\* C16: stat_format returns one value per requested field, in the order
\* requested: size as the integer size, directory as the boolean "is a
\* directory", modified as the modify time cut down to whole seconds.
C16_FormatInOrder ==
    fmt.done
        => /\ Len(fmt.out) = Len(fmt.keys)
           /\ \A i \in 1..Len(fmt.keys) :
                 /\ fmt.keys[i] = K_size => fmt.out[i] = fmt.props.size
                 /\ fmt.keys[i] = K_directory
                       => (fmt.out[i] <=> fmt.props.content_type = "application/directory")
                 /\ fmt.keys[i] = K_modified
                       => /\ fmt.out[i] * 10 <= fmt.props.mtime10
                          /\ fmt.props.mtime10 < (fmt.out[i] + 1) * 10

C16_Witness ==
    /\ fmt.done
    /\ fmt.keys = <<K_size, K_directory, K_modified>>
    /\ fmt.props = FileProps
    /\ fmt.out = <<42, FALSE, 1700>>

\* C17: a successful list returns one entry per direct child of the listed
\* directory, keyed by the child's bare name, with the child's attributes
\* formatted for the requested keys.
C17_ListDirectChildren ==
    (shell.op = "list" /\ shell.result.kind = "ok")
        => /\ Len(shell.result.val) = Cardinality(Children(shell.tree))
           /\ {shell.result.val[i][1] : i \in 1..Len(shell.result.val)}
                  = Children(shell.tree)
           /\ \A i \in 1..Len(shell.result.val) :
                  shell.result.val[i][2]
                      = stat_format(shell.keys,
                                    ChildProps(shell.tree, shell.result.val[i][1]))

\* C18 as stated: no bytes reach the consumer after connectionLost, whatever
\* the sequence of dataReceived and connectionLost events.
C18_NoWriteAfterLost == consumer.late = 0

\* C18 as amended: from connectionLost on, the consumer is written to only by
\* a further dataReceived, which writes exactly the chunk it was given.
C18_LateWritesOnlyFromDataReceived ==
    [][lostReason' # "none"
          => /\ delivered' = delivered => consumer'.written = consumer.written
             /\ delivered' # delivered
                   => consumer'.written
                          = Append(consumer.written, delivered'[Len(delivered')])]_vars

C18_Witness ==
    /\ lostReason # "none"
    /\ consumer.stopped = 1
    /\ consumer.late >= 1
    /\ consumer.written = delivered

\* C19: the write handle keeps the completion signal of the most recently
\* started upload and no other; close() returns that signal and changes
\* nothing in the handle or the uploads.
C19_OneSignalPerHandle ==
    [][/\ wf'.finished = Len(uploads')
       /\ (closeRet' # closeRet \/ closeAt' # closeAt)
             => /\ wf' = wf
                /\ uploads' = uploads
                /\ closeRet' = wf.finished]_vars

\* two uploads started, the first one settled, close() called after the second
C19_Witness ==
    /\ Len(uploads) = 2
    /\ uploads[1].d = "success"
    /\ wf.finished = 2
    /\ closeAt = 2
    /\ closeRet = 2

\* C20: the FTP service binds the port resolved for section 'ftp': the
\* command-line override if given, else the [ftp] value of the configuration
\* files, else their [DEFAULT] value, else 5021; with or without a section
\* 'sftp'.
C20_BindsFtpPort ==
    svc.started
        => svc.bound = ParseInt(IF svc.override # NoPort THEN svc.override
                                ELSE IF svc.file.ftpPort # NoPort THEN svc.file.ftpPort
                                ELSE IF svc.file.defPort # NoPort THEN svc.file.defPort
                                ELSE DefaultPort)

====
